---- MODULE Spec2Model ----
(***************************************************************************)
(* Model of lib/AmfService.js: the prepare -> resolve -> parse session of  *)
(* the AMF service, its temporary resources on disk and the supervised     *)
(* parser child process with its two timers.                               *)
(*                                                                         *)
(* Time is abstracted: a pending timer may fire at any moment.  A JS       *)
(* handler runs to completion, so each public method is one action up to   *)
(* the point where it waits for the parser process; the continuation of    *)
(* parse() runs in the action of the event that settles _runParser().      *)
(* tmp-promise's cleanup() of a temp file removes the file; of a temp      *)
(* directory it is rmdir, which fails on a directory that is not empty.    *)
(***************************************************************************)
EXTENDS Integers, Sequences, FiniteSets, TLC

\* ------------------------------------------------------------------ bounds
MaxFiles == 2    \* files in an archive or directory
MaxTmp == 1      \* temp resources that exist on disk at the same time
MaxProcs == 2    \* parser processes not yet exited at the same time
MaxTimers == 2   \* timers pending (or still referenced) at the same time
MaxCalls == 1    \* _runParser() promises tracked at the same time
MaxResolvers == 2 \* resolveAPiConsole() calls, and resolver processes, tracked

\* --------------------------------------------------------------- constants
NoErr == "none"
ErrPrepare == "prepare() function not called"
ErrResolve == "resolve() function not called"
ErrNoMain == "API main file does not exist."
ErrNoApi == "Unable to find API files in the source location"
ErrTimeout == "API parsing timeout"
ErrIO == "io error"              \* an error raised by fs, tmp or unzipper
ErrType == "api type unknown"    \* raised by ApiSearch._readApiType
ErrWorker == "worker error"      \* {error} reply or 'error' event
ErrThrown == "exception"         \* a TypeError or an unhandled 'error' event
ErrChecksum == "API file integrity test failed. Checksum mismatch."
ErrDownload == "Unable to download the asset."  \* or the file cannot be read
ErrChooser == "chooser failed"   \* notifyApiCandidates() threw or rejected
ErrNoFile == "File not set."
ErrNoModel == "The \"model\" property is not set."
ErrModelType == "The \"model\" property is not a string."
ErrNoApiType == "The API \"type\" property is not set."
ErrResolver == "AMF parser: Unable to resolve AMF ld+json model."
ErrChannel == "channel error"    \* the message of an 'error' event
ErrUnknown == "Unknown error"

\* ------------------------------------------------------------ file system
\* A directory tree: tf regular files at the top level, the first ts of them
\* with a recognizable API header; optionally one sub directory ("root") with
\* rf files, the first rs of them with a header; optionally a __MACOSX entry.
\* The trees of the model are flat (files only) or wrapped (one directory,
\* with or without __MACOSX next to it).
EmptyTree == [tf |-> 0, ts |-> 0, root |-> FALSE, rf |-> 0, rs |-> 0, junk |-> FALSE]

Trees ==
  { t \in [tf : 0..MaxFiles, ts : 0..MaxFiles, root : BOOLEAN,
           rf : 0..MaxFiles, rs : 0..MaxFiles, junk : BOOLEAN] :
      /\ t.ts <= t.tf
      /\ t.rs <= t.rf
      /\ (t.rf > 0 => t.root)
      /\ (t.root \/ t.junk => t.tf = 0) }

TreeIsEmpty(t) == t.tf = 0 /\ ~t.root /\ ~t.junk

\* The directory of a single file, with or without an API header.
OneFile(strong) == [EmptyTree EXCEPT !.tf = 1, !.ts = IF strong THEN 1 ELSE 0]

\* File names, relative to the working directory.
NoFile == [dir |-> "undef", idx |-> 0]
Ghost == [dir |-> "ghost", idx |-> 0]     \* a name that exists nowhere
SrcFile == [dir |-> "srcfile", idx |-> 0] \* basename of a path source
TmpFile(id) == [dir |-> "tmpfile", idx |-> id]
TopFile(i) == [dir |-> "top", idx |-> i]
RootFile(i) == [dir |-> "root", idx |-> i]

\* Locations of the working directory.
NoDir == [loc |-> "undef", id |-> 0]
TmpDir(id) == [loc |-> "tmpdir", id |-> id]   \* a temp directory
TmpParent == [loc |-> "tmpparent", id |-> 0]  \* dirname of a temp file
SrcDir == [loc |-> "src", id |-> 0]           \* the caller's directory
SrcParent == [loc |-> "srcparent", id |-> 0]  \* dirname of the caller's file

\* ---------------------------------------------------------------- sources
\* this.source is a Buffer, or a path naming a file, a directory or nothing.
SourceKinds == {"buffer", "file", "dir", "missing"}

\* What prepare() reads from the source.  arch: the bytes are a zip archive
\* of `tree`; corrupt: the archive cannot be read to the end, `tree` is the
\* part written before the error; strong: the bytes of a plain file carry an
\* API header.  For a directory, `tree` is what it holds.
Contents ==
  { c \in [arch : BOOLEAN, corrupt : BOOLEAN, strong : BOOLEAN, tree : Trees] :
      /\ (c.corrupt => c.arch)
      /\ (c.arch => ~c.strong) }

VARIABLES
  source,               \* this.source: the kind of source, "none" = undefined
  isZip,                \* this.isZip
  validate,             \* this.validate
  tmpObj,               \* this.tmpObj: id of the temp resource, 0 = undefined
  tmpIsFile,            \* this.#tmpIsFile
  workingDir,           \* this.workingDir
  mainFile,             \* this.mainFile
  disk,                 \* the temp resources on disk: "file", "dir" or "none"
  content,              \* the tree the working directory holds
  parserProc,           \* this._parserProc: process id, 0 = undefined
  parserProcessTimeout, \* this._parserProcessTimeout: timer id, 0 = undefined
  parserProcCb,         \* this._parserProcCb: call id, 0 = undefined
  parserMonitorTimeout, \* this._parserMonitorTimeout: timer id, 0 = undefined
  procs,                \* the child processes that have not exited
  timers,               \* the pending timers
  calls,                \* the _runParser() promises and their parse() frames
  last,                 \* outcome of the operation or callback that ran last
  loading,              \* ElectronAmfService: this.#loading
  loadingId,            \* this.#loadingId, 0 = undefined
  note,                 \* the loading notification dispatched last
  ren,                  \* the process*() calls of the renderer in progress
  dom,                  \* the DOM event handled last and what its handler did
  resolver              \* the resolveAPiConsole() calls and their processes

supervisor == <<parserProc, parserProcessTimeout, parserProcCb,
                parserMonitorTimeout, procs, timers, calls>>
renderer == <<loading, loadingId, note, ren, dom, resolver>>
vars == <<source, isZip, validate, tmpObj, tmpIsFile, workingDir, mainFile,
          disk, content, parserProc, parserProcessTimeout, parserProcCb,
          parserMonitorTimeout, procs, timers, calls, last,
          loading, loadingId, note, ren, dom, resolver>>

session == <<source, isZip, validate, tmpObj, tmpIsFile, workingDir, mainFile,
             disk, content, last>>

\* ------------------------------------------------- the renderer's records
\* The process*() calls of ElectronAmfService that are followed: the
\* application makes one call at a time.
RenCalls == {"a"}
\* The calls followed when the application starts a second call before the
\* first has settled.
Overlap == {"a", "b"}
\* Date.now() at the moment loading is set: two calls can read the same value.
Stamps == {1, 2}

\* A loading notification: process-loading-start or process-loading-stop
\* with the id it carries.
NoNote == [kind |-> "none", id |-> 0]

\* op: "link", "file" or "buffer"; pc: the await the call is at ("idle":
\* never called, "done": settled); main, zip, md5: the arguments mainFile,
\* packaging === 'zip' and md5 of processApiLink; optMain: opts.mainFile of processBuffer;
\* out, err, val: how the call settled.
NoRen == [op |-> "none", pc |-> "idle", main |-> NoFile, zip |-> FALSE,
          md5 |-> <<>>, optMain |-> NoFile,
          out |-> "none", err |-> NoErr, val |-> "none"]

\* type: the event; prevented: event.defaultPrevented after the handler;
\* result: what detail.result holds ("unset", "rejected", or the method
\* whose promise it is); err: the error of a promise rejected by the
\* handler; forked: a resolver process was forked.
NoEvent == [type |-> "none", prevented |-> FALSE, result |-> "unset",
            err |-> NoErr, forked |-> FALSE]

\* The resolveAPiConsole() calls and the processes they fork.  A call: out is
\* the state of its promise, proc the process it forked, val what it settled
\* with (kind "api": the payload, computed by process `from`; kind "error":
\* the message of the rejection).  A process: listening = the 'message' and
\* 'error' listeners of the call are attached; job = the request it was sent.
ResIds == 1..MaxResolvers
NoVal == [kind |-> "none", from |-> 0, msg |-> NoErr]
NoResCall == [out |-> "none", proc |-> 0, val |-> NoVal]
NoResProc == [status |-> "none", connected |-> FALSE, listening |-> FALSE,
              job |-> "none"]
NoResolver == [calls |-> [c \in ResIds |-> NoResCall],
               procs |-> [p \in ResIds |-> NoResProc]]

\* ------------------------------------------------------- outcome records
NoModel == [proc |-> 0, call |-> 0]
NoType == "none"
\* ApiSearch._readApiType(): the type read from the header of the file.
ReadApiType(f) == IF f.dir = "root" THEN "OAS 2.0" ELSE "RAML 1.0"

\* op: the method the outcome belongs to ("none": a callback that settled
\* nothing); via: the handler that ran; outcome: "ok", "rejected" or
\* "pending" (a request was sent to the worker, or cleanup() waits for
\* 'exit'); list: the candidates resolve() returned; threw: the handler
\* ended with an uncaught exception; tmp: the temp resource the session held
\* when the method was called (prepare: the one it created); model, type:
\* the result of parse(); again: cancel() or cleanup() ran right after the
\* same method had completed; stale: the message that settled parse() was
\* the answer to a superseded request.
Outcome(op, outcome, err) ==
  [op |-> op, via |-> op, outcome |-> outcome, err |-> err, list |-> <<>>,
   threw |-> FALSE, tmp |-> 0, model |-> NoModel, type |-> NoType,
   again |-> FALSE, stale |-> FALSE]

Ok(op) == Outcome(op, "ok", NoErr)
Rejected(op, err) == Outcome(op, "rejected", err)

\* ------------------------------------------------------------ disk access
TmpIds == 1..MaxTmp
FreeTmp == { i \in TmpIds : disk[i] = "none" /\ tmpObj # i /\ last.tmp # i }
NewTmp == CHOOSE i \in FreeTmp : \A j \in FreeTmp : i <= j

DirExists(d, wd) ==
  CASE wd.loc = "tmpdir" -> d[wd.id] = "dir"
    [] wd.loc = "undef" -> FALSE
    [] OTHER -> TRUE

FileExists(d, wd, t, f) ==
  CASE f.dir = "tmpfile" -> wd.loc = "tmpparent" /\ d[f.idx] = "file"
    [] f.dir = "srcfile" -> wd.loc = "srcparent"
    [] f.dir = "top" -> wd.loc \in {"tmpdir", "src"} /\ DirExists(d, wd) /\ f.idx <= t.tf
    [] f.dir = "root" -> wd.loc \in {"tmpdir", "src"} /\ DirExists(d, wd) /\ f.idx <= t.rf
    [] OTHER -> FALSE

\* The file starts with a header ApiSearch._readApiType recognizes.
FileStrong(d, wd, t, f) ==
  /\ FileExists(d, wd, t, f)
  /\ CASE f.dir \in {"tmpfile", "srcfile"} -> t.ts = 1
       [] f.dir = "top" -> f.idx <= t.ts
       [] f.dir = "root" -> f.idx <= t.rs
       [] OTHER -> FALSE

\* _cleanTempFiles(): is temp resource `id`, a directory holding `t` if it is
\* one, removed from the disk.  this.#tmpIsFile decides between
\* tmpObj.cleanup() alone (rmdir for a directory: ENOTEMPTY unless empty) and
\* fs.emptyDir() followed by tmpObj.cleanup() (ENOTDIR for a file).
Removed(d, id, isFile, t) ==
  /\ id # 0
  /\ IF isFile THEN d[id] = "dir" => TreeIsEmpty(t)
               ELSE d[id] # "file"

CleanTempFiles(d, id, isFile, t) ==
  IF Removed(d, id, isFile, t) THEN [d EXCEPT ![id] = "none"] ELSE d

\* The tree of the temp resource the session holds.
TmpTree == IF workingDir = TmpDir(tmpObj) THEN content ELSE EmptyTree

\* _cleanTempFiles() emptying the working directory, whatever it is.
CleanContentOfWorkingDir == EmptyTree

\* The tree the working directory holds once this._cleanTempFiles() has run.
CleanContent ==
  IF workingDir.loc \in {"tmpdir", "tmpparent"}
     /\ Removed(disk, tmpObj, tmpIsFile, TmpTree)
  THEN EmptyTree ELSE content

\* _removeZipMainFolder(): fs.copy() of the only top level directory into
\* the destination; the directory itself stays where it is.
ZipMainFolderFails(t) == t.tf = 0 /\ ~t.root
RemoveZipMainFolder(t) ==
  IF t.tf + (IF t.root THEN 1 ELSE 0) > 1 THEN t
  ELSE IF t.root THEN [t EXCEPT !.tf = t.rf, !.ts = t.rs]
  ELSE t

\* ------------------------------------------------------------- supervisor
\* The handlers of the parser process are sequences of steps over the
\* supervisor's fields.  They are written as functions of a record S:
\*   pp, ppt, cb, pmt  this._parserProc, _parserProcessTimeout,
\*                     _parserProcCb, _parserMonitorTimeout
\*   procs, timers, calls
\*   threw     an exception is propagating: the rest of the handler is skipped
\*   settled   the promises settled by this handler, in order
\*   full      a process or timer was needed beyond the bounds
ProcIds == 1..MaxProcs
TimerIds == 1..MaxTimers
CallIds == 1..MaxCalls

\* status: "alive"; "crashed" (the process is gone and its channel closed,
\* 'exit' not yet emitted); "killed" (kill() was called, 'exit' not yet
\* emitted); "none" (no such process).
\* onMessage, onError: the calls whose listeners are attached, in order.
\* onExit: "create" is the listener of _createParserProcess, "cleanup" the
\* one cleanup() adds.  jobs: the requests the worker has received, each with
\* the messages the worker has sent for it.  superseded: the requests that
\* had no answer yet when a later request was sent to the same process.
NoProc == [status |-> "none", connected |-> FALSE, onMessage |-> <<>>,
           onError |-> <<>>, onExit |-> {}, jobs |-> {}, superseded |-> {}]
NoCall == [status |-> "none", proc |-> 0, type |-> NoType]

Sup ==
  [pp |-> parserProc, ppt |-> parserProcessTimeout, cb |-> parserProcCb,
   pmt |-> parserMonitorTimeout, procs |-> procs, timers |-> timers,
   calls |-> calls, threw |-> FALSE, settled |-> <<>>, full |-> FALSE,
   stale |-> FALSE]

FreeTimers(S) == TimerIds \ ({t.id : t \in S.timers} \cup {S.ppt, S.pmt})
\* The 'exit' event of a killed process that has no listener changes
\* nothing: such a process is not kept.
Gone(pr) == pr.status = "none" \/ (pr.status = "killed" /\ pr.onExit = {})
FreeProcs(S) == { p \in ProcIds : Gone(S.procs[p]) /\ S.pp # p }

Min(set) == CHOOSE i \in set : \A j \in set : i <= j

ClearTimeout(S, id) == [S EXCEPT !.timers = { t \in S.timers : t.id # id }]

\* resolve()/reject() of the promise of call c; settling twice is a no-op.
Settle(S, c, okay, err, model) ==
  IF S.calls[c].status # "pending" THEN S
  ELSE [S EXCEPT !.calls[c] = NoCall,
                 !.settled = Append(S.settled,
                     [call |-> c, ok |-> okay, err |-> err, model |-> model,
                      type |-> S.calls[c].type])]

\* this._parserProc.removeAllListeners('message' and 'error'): a TypeError
\* when this._parserProc is undefined.
RemoveListeners(S) ==
  IF S.threw THEN S
  ELSE IF S.pp = 0 THEN [S EXCEPT !.threw = TRUE]
  ELSE [S EXCEPT !.procs[S.pp].onMessage = <<>>, !.procs[S.pp].onError = <<>>]

CancelParseProcTimeout(S) ==
  IF S.threw \/ S.ppt = 0 THEN S
  ELSE [ClearTimeout(S, S.ppt) EXCEPT !.ppt = 0, !.cb = 0]

CancelMonitorParser(S) ==
  IF S.threw \/ S.pmt = 0 THEN S
  ELSE ClearTimeout(S, S.pmt)

MonitorParserProc(S) ==
  IF S.threw THEN S
  ELSE IF FreeTimers(S) = {} THEN [S EXCEPT !.full = TRUE]
  ELSE LET t == Min(FreeTimers(S))
       IN [S EXCEPT !.pmt = t, !.timers = S.timers \cup {[id |-> t, kind |-> "idle"]}]

\* The onerror callback without the call of _monitorParserProc().
OnErrorUnmonitored(S, c) ==
  LET S1 == RemoveListeners(CancelParseProcTimeout(S))
      S2 == IF S1.threw THEN S1 ELSE [S1 EXCEPT !.cb = 0]
  IN IF S2.threw THEN S2 ELSE Settle(S2, c, FALSE, ErrWorker, NoModel)

\* The onerror callback of call c in _runParser.
OnError(S, c) ==
  LET S1 == RemoveListeners(CancelParseProcTimeout(S))
      S2 == IF S1.threw THEN S1 ELSE MonitorParserProc([S1 EXCEPT !.cb = 0])
  IN IF S2.threw THEN S2 ELSE Settle(S2, c, FALSE, ErrWorker, NoModel)

\* emit('error') on process p: the listeners attached when the event is
\* emitted run in order; an exception in one of them ends the emit.
RECURSIVE RunOnError(_, _)
RunOnError(S, ls) ==
  IF ls = <<>> \/ S.threw THEN S
  ELSE RunOnError(OnError(S, Head(ls)), Tail(ls))

\* An 'error' event without a listener is thrown by the emitter.
EmitError(S, p) ==
  IF S.threw THEN S
  ELSE IF S.procs[p].onError = <<>> THEN [S EXCEPT !.threw = TRUE]
  ELSE RunOnError(S, S.procs[p].onError)

\* _killParser(). disconnect() of a process whose channel is closed emits
\* 'error' on it instead of disconnecting.
KillParser(S) ==
  LET S1 == CancelMonitorParser(CancelParseProcTimeout(S))
  IN IF S1.threw \/ S1.pp = 0 THEN S1
     ELSE LET p == S1.pp
              S2 == IF S1.procs[p].connected THEN S1 ELSE EmitError(S1, p)
          IN IF S2.threw THEN S2
             ELSE [S2 EXCEPT !.procs[p] =
                        [NoProc EXCEPT !.status = "killed"],
                      !.pp = 0]

\* ------------------------------------------------------------ the caller
\* A call is live while one of its listeners is attached or the parse
\* timeout would still reject it.
Live(c) ==
  /\ calls[c].status = "pending"
  /\ \/ \E p \in ProcIds : \E i \in DOMAIN procs[p].onMessage : procs[p].onMessage[i] = c
     \/ \E p \in ProcIds : \E i \in DOMAIN procs[p].onError : procs[p].onError[i] = c
     \/ parserProcCb = c /\ \E t \in timers : t.id = parserProcessTimeout

CleanupWaiting == \E p \in ProcIds : "cleanup" \in procs[p].onExit

\* The session is single-flight: the caller starts a method when the
\* previous one has settled (or can no longer settle).
CallerFree == ~CleanupWaiting /\ \A c \in CallIds : ~Live(c)

MainFileArgs == {NoFile, Ghost} \cup { TopFile(i) : i \in 1..MaxFiles }

\* ---------------------------------------------------------------- methods
SetSource(src, zip, val) ==
  /\ CallerFree
  /\ source' = src
  /\ isZip' = zip
  /\ validate' = val
  /\ tmpObj' = 0
  /\ workingDir' = NoDir
  /\ mainFile' = NoFile
  /\ content' = EmptyTree
  /\ last' = Ok("setSource")
  /\ UNCHANGED <<tmpIsFile, disk, supervisor>>

\* cancel() whose _cleanTempFiles() reads this.tmpObj.path without testing
\* this.tmpObj first.
CancelSessionUnguarded(via) ==
  /\ disk' = CleanTempFiles(disk, tmpObj, tmpIsFile, TmpTree)
  /\ tmpObj' = 0
  /\ workingDir' = NoDir
  /\ mainFile' = NoFile
  /\ content' = EmptyTree
  /\ last' = IF tmpObj = 0 THEN Rejected(via, ErrThrown)
             ELSE [Ok(via) EXCEPT !.tmp = tmpObj]
  /\ UNCHANGED <<source, isZip, validate, tmpIsFile>>

\* cancel(): _cleanTempFiles() and the three fields unset.
CancelSession(via) ==
  /\ disk' = CleanTempFiles(disk, tmpObj, tmpIsFile, TmpTree)
  /\ tmpObj' = 0
  /\ workingDir' = NoDir
  /\ mainFile' = NoFile
  /\ content' = EmptyTree
  /\ last' = [Ok(via) EXCEPT !.tmp = tmpObj,
                            !.again = (last.op = via /\ last.outcome = "ok")]
  /\ UNCHANGED <<source, isZip, validate, tmpIsFile>>

Cancel ==
  /\ CallerFree
  /\ CancelSession("cancel")
  /\ UNCHANGED supervisor

\* _prepareZip() with _unzipSource(), _unzip() and _removeZipMainFolder().
PrepareZip(c) ==
  IF source \notin {"buffer", "file"}
  THEN \* fs.readFile() fails
       /\ last' = Rejected("prepare", ErrIO)
       /\ UNCHANGED <<disk, tmpObj, workingDir, mainFile, tmpIsFile, content>>
  ELSE /\ FreeTmp # {}
       /\ LET id == NewTmp
              d1 == [disk EXCEPT ![id] = "dir"]
          IN IF ~c.arch \/ c.corrupt
             THEN \* the extractor emits 'error'
                  /\ disk' = CleanTempFiles(d1, id, tmpIsFile, c.tree)
                  /\ tmpObj' = 0
                  /\ last' = [Rejected("prepare", ErrIO) EXCEPT !.tmp = id]
                  /\ UNCHANGED <<workingDir, mainFile, tmpIsFile, content>>
             ELSE IF ZipMainFolderFails(c.tree)
             THEN \* path.join(destination, undefined) throws
                  /\ disk' = CleanTempFiles(d1, id, tmpIsFile, c.tree)
                  /\ tmpObj' = 0
                  /\ workingDir' = TmpDir(id)
                  /\ content' = IF Removed(d1, id, tmpIsFile, c.tree)
                                THEN EmptyTree ELSE c.tree
                  /\ last' = [Rejected("prepare", ErrThrown) EXCEPT !.tmp = id]
                  /\ UNCHANGED <<mainFile, tmpIsFile>>
             ELSE /\ disk' = d1
                  /\ tmpObj' = id
                  /\ workingDir' = TmpDir(id)
                  /\ content' = RemoveZipMainFolder(c.tree)
                  /\ last' = [Ok("prepare") EXCEPT !.tmp = id]
                  /\ UNCHANGED <<mainFile, tmpIsFile>>

\* _prepareBuffer() with _tmpBuffer(); written: fs.write() succeeded.
PrepareBuffer(c, written) ==
  /\ FreeTmp # {}
  /\ LET id == NewTmp
     IN /\ disk' = [disk EXCEPT ![id] = "file"]
        /\ tmpObj' = id
        /\ tmpIsFile' = TRUE
        /\ IF written
           THEN /\ workingDir' = TmpParent
                /\ mainFile' = TmpFile(id)
                /\ content' = OneFile(c.strong)
                /\ last' = [Ok("prepare") EXCEPT !.tmp = id]
           ELSE /\ last' = [Rejected("prepare", ErrIO) EXCEPT !.tmp = id]
                /\ UNCHANGED <<workingDir, mainFile, content>>

PreparePath(c) ==
  /\ CASE source = "dir" ->
            /\ workingDir' = SrcDir
            /\ content' = c.tree
            /\ last' = Ok("prepare")
            /\ UNCHANGED mainFile
       [] source = "file" ->
            /\ workingDir' = SrcParent
            /\ mainFile' = SrcFile
            /\ content' = OneFile(c.strong)
            /\ last' = Ok("prepare")
       [] OTHER -> \* fs.stat() fails
            /\ last' = Rejected("prepare", ErrIO)
            /\ UNCHANGED <<workingDir, mainFile, content>>
  /\ UNCHANGED <<tmpObj, tmpIsFile, disk>>

\* The parts of what prepare() reads that the session looks at.
Relevant(c) ==
  /\ (c.tree # EmptyTree => (isZip /\ c.arch /\ source \in {"buffer", "file"})
                            \/ (~isZip /\ source = "dir"))
  /\ (c.arch => isZip /\ source \in {"buffer", "file"})
  /\ (c.strong => ~isZip /\ source \in {"buffer", "file"})

\* prepare(), once per session.
Prepare(c, written) ==
  /\ CallerFree
  /\ tmpObj = 0 /\ workingDir = NoDir
  /\ Relevant(c)
  /\ (~isZip /\ source = "buffer") \/ written
  /\ IF isZip THEN PrepareZip(c)
     ELSE IF source = "buffer" THEN PrepareBuffer(c, written)
     ELSE PreparePath(c)
  /\ UNCHANGED <<source, isZip, validate, supervisor>>

\* ------------------------------------------------------------- ApiSearch
\* The files the search looks at, and those among them with an API header.
Candidates(t) ==
  [i \in 1..t.tf |-> TopFile(i)] \o [i \in 1..t.rf |-> RootFile(i)]
StrongCandidates(t) ==
  [i \in 1..t.ts |-> TopFile(i)] \o [i \in 1..t.rs |-> RootFile(i)]

\* ApiSearch.findApiFile(): undefined (kind "none"), one file (kind "one")
\* or the list of candidates (kind "many").
FindApiFile(t) ==
  LET all == Candidates(t)
      strong == StrongCandidates(t)
  IN IF Len(all) = 0 THEN [kind |-> "none", file |-> NoFile, list |-> <<>>]
     ELSE IF Len(all) = 1 THEN [kind |-> "one", file |-> all[1], list |-> <<>>]
     ELSE IF Len(strong) = 1 THEN [kind |-> "one", file |-> strong[1], list |-> <<>>]
     ELSE [kind |-> "many", file |-> NoFile, list |-> all]

\* fs.pathExists(file) is not awaited: the value tested is the promise.
PathExistsResult(d, wd, t, f) == TRUE

\* A search that returns its candidates also removes the temp resource.
SearchOutcomeCleansList(r) ==
  CASE r.kind = "none" ->
         [out |-> Rejected("resolve", ErrNoApi), clean |-> TRUE, pin |-> NoFile]
    [] r.kind = "many" ->
         [out |-> [Ok("resolve") EXCEPT !.list = r.list], clean |-> TRUE,
          pin |-> NoFile]
    [] OTHER ->
         [out |-> Ok("resolve"), clean |-> FALSE, pin |-> r.file]

\* A single file found is returned as a list of one instead of being pinned.
SearchOutcomeListsOne(r) ==
  CASE r.kind = "none" ->
         [out |-> Rejected("resolve", ErrNoApi), clean |-> TRUE, pin |-> NoFile]
    [] r.kind = "many" ->
         [out |-> [Ok("resolve") EXCEPT !.list = r.list], clean |-> FALSE,
          pin |-> NoFile]
    [] OTHER ->
         [out |-> [Ok("resolve") EXCEPT !.list = <<r.file>>], clean |-> FALSE,
          pin |-> NoFile]

\* A single file found is neither pinned nor returned.
SearchOutcomeDropsOne(r) ==
  CASE r.kind = "none" ->
         [out |-> Rejected("resolve", ErrNoApi), clean |-> TRUE, pin |-> NoFile]
    [] r.kind = "many" ->
         [out |-> [Ok("resolve") EXCEPT !.list = r.list], clean |-> FALSE,
          pin |-> NoFile]
    [] OTHER ->
         [out |-> Ok("resolve"), clean |-> FALSE, pin |-> NoFile]

\* resolve(): what becomes of the result r of findApiFile().  out: the
\* outcome; clean: _cleanTempFiles() runs; pin: the file this.mainFile is set to.
SearchOutcome(r) ==
  CASE r.kind = "none" ->
         [out |-> Rejected("resolve", ErrNoApi), clean |-> TRUE, pin |-> NoFile]
    [] r.kind = "many" ->
         [out |-> [Ok("resolve") EXCEPT !.list = r.list], clean |-> FALSE,
          pin |-> NoFile]
    [] OTHER ->
         [out |-> Ok("resolve"), clean |-> FALSE, pin |-> r.file]

\* resolve(mainFile); readable: the search can read the working directory.
ResolveResult(mf, readable) ==
  IF tmpIsFile THEN [out |-> Ok("resolve"), clean |-> FALSE, pin |-> NoFile]
  ELSE IF workingDir = NoDir
    THEN [out |-> Rejected("resolve", ErrPrepare), clean |-> TRUE, pin |-> NoFile]
  ELSE IF mainFile # NoFile
    THEN [out |-> Ok("resolve"), clean |-> FALSE, pin |-> NoFile]
  ELSE IF mf # NoFile
    THEN IF PathExistsResult(disk, workingDir, content, mf)
         THEN [out |-> Ok("resolve"), clean |-> FALSE, pin |-> mf]
         ELSE [out |-> Rejected("resolve", ErrNoMain), clean |-> FALSE, pin |-> NoFile]
  ELSE IF ~readable \/ ~DirExists(disk, workingDir)
    THEN [out |-> Rejected("resolve", ErrIO), clean |-> TRUE, pin |-> NoFile]
  ELSE SearchOutcome(FindApiFile(content))

Resolve(mf, readable) ==
  /\ CallerFree
  \* `readable` is an input of the search alone
  /\ readable \/ (~tmpIsFile /\ workingDir # NoDir /\ mainFile = NoFile /\ mf = NoFile)
  /\ LET r == ResolveResult(mf, readable)
     IN /\ disk' = IF r.clean THEN CleanTempFiles(disk, tmpObj, tmpIsFile, TmpTree)
                    ELSE disk
        /\ content' = IF r.clean THEN CleanContent ELSE content
        /\ tmpObj' = IF r.clean THEN 0 ELSE tmpObj
        /\ mainFile' = IF r.pin # NoFile THEN r.pin ELSE mainFile
        /\ last' = [r.out EXCEPT !.tmp = tmpObj]
  /\ UNCHANGED <<source, isZip, validate, tmpIsFile, workingDir, supervisor>>

\* ------------------------------------------------------ parser supervisor
\* The 'message' handler of the worker has run to its end for request j: it
\* has sent {api} or {error}.
Answered(j) == \E i \in DOMAIN j.sent : j.sent[i] \in {"api", "error"}

Fork(S) ==
  IF S.threw THEN S
  ELSE IF FreeProcs(S) = {} THEN [S EXCEPT !.full = TRUE]
  ELSE LET p == Min(FreeProcs(S))
       IN [S EXCEPT !.pp = p,
                    !.procs[p] = [NoProc EXCEPT !.status = "alive",
                                                !.connected = TRUE,
                                                !.onExit = {"create"}]]

\* _createParserProcess() forking without looking at the process it holds.
CreateParserProcessAlways(S) ==
  Fork(S)

CreateParserProcess(S) ==
  IF S.pp # 0
  THEN IF S.procs[S.pp].connected THEN S ELSE Fork(KillParser(S))
  ELSE Fork(S)

SetParserProcTimeout(S, c) ==
  IF S.threw THEN S
  ELSE IF FreeTimers(S) = {} THEN [S EXCEPT !.full = TRUE]
  ELSE LET t == Min(FreeTimers(S))
       IN [S EXCEPT !.cb = c, !.ppt = t,
                    !.timers = S.timers \cup {[id |-> t, kind |-> "parse"]}]

\* _runParser() sending a request without the detected type.
RunParserUntyped(S, c, apiLocation, type) ==
  LET S0 == [S EXCEPT !.calls[c] = [status |-> "pending", proc |-> 0, type |-> type]]
      S1 == SetParserProcTimeout(CreateParserProcess(CancelMonitorParser(S0)), c)
  IN IF S1.full THEN S1
     ELSE IF S1.threw
       THEN Settle([S1 EXCEPT !.threw = FALSE], c, FALSE, ErrThrown, NoModel)
     ELSE LET p == S1.pp
          IN [S1 EXCEPT !.calls[c].proc = p,
                        !.procs[p].onMessage = Append(@, c),
                        !.procs[p].onError = Append(@, c),
                        !.procs[p].superseded =
                            (@ \cup { j \in S1.procs[p].jobs : ~Answered(j) })
                              \ {[call |-> c, validate |-> validate,
                                  validated |-> FALSE, from |-> NoType,
                                  source |-> apiLocation, sent |-> <<>>]},
                        !.procs[p].jobs = @ \cup {[call |-> c, validate |-> validate,
                                                   validated |-> FALSE, from |-> NoType,
                                                   source |-> apiLocation,
                                                   sent |-> <<>>]}]

\* _runParser(apiLocation, type) as call c.  An exception in the promise
\* executor rejects the promise.
RunParser(S, c, apiLocation, type) ==
  LET S0 == [S EXCEPT !.calls[c] = [status |-> "pending", proc |-> 0, type |-> type]]
      S1 == SetParserProcTimeout(CreateParserProcess(CancelMonitorParser(S0)), c)
  IN IF S1.full THEN S1
     ELSE IF S1.threw
       THEN Settle([S1 EXCEPT !.threw = FALSE], c, FALSE, ErrThrown, NoModel)
     ELSE LET p == S1.pp
          IN [S1 EXCEPT !.calls[c].proc = p,
                        !.procs[p].onMessage = Append(@, c),
                        !.procs[p].onError = Append(@, c),
                        !.procs[p].superseded =
                            (@ \cup { j \in S1.procs[p].jobs : ~Answered(j) })
                              \ {[call |-> c, validate |-> validate,
                                  validated |-> FALSE, from |-> type,
                                  source |-> apiLocation, sent |-> <<>>]},
                        !.procs[p].jobs = @ \cup {[call |-> c, validate |-> validate,
                                                   validated |-> FALSE, from |-> type,
                                                   source |-> apiLocation,
                                                   sent |-> <<>>]}]

\* The messages of the worker: {validation: report}, {api} (ok) or {error}.
\* The report is the text of AMF's validation report, which is never empty.
NoReport == ""
Reports == {"conforms", "violations"}

\* The onmessage callback treating every message as a terminal one.
OnMessageTerminal(S, c, msg) ==
  LET S1 == RemoveListeners(CancelParseProcTimeout(S))
      S2 == IF S1.threw THEN S1
            ELSE KillParser(MonitorParserProc([S1 EXCEPT !.cb = 0]))
  IN IF S2.threw THEN S2
     ELSE IF msg.ok THEN Settle(S2, c, TRUE, NoErr, msg.model)
     ELSE Settle(S2, c, FALSE, ErrWorker, NoModel)

\* The onmessage callback of call c: a message with a validation report is
\* logged and nothing else happens; any other message is terminal.
OnMessage(S, c, msg) ==
  IF msg.validation # NoReport THEN S
  ELSE LET S1 == RemoveListeners(CancelParseProcTimeout(S))
           S2 == IF S1.threw THEN S1
                 ELSE KillParser(MonitorParserProc([S1 EXCEPT !.cb = 0]))
       IN IF S2.threw THEN S2
          ELSE IF msg.ok THEN Settle(S2, c, TRUE, NoErr, msg.model)
          ELSE Settle(S2, c, FALSE, ErrWorker, NoModel)

RECURSIVE RunOnMessage(_, _, _)
RunOnMessage(S, ls, msg) ==
  IF ls = <<>> \/ S.threw THEN S
  ELSE RunOnMessage(OnMessage(S, Head(ls), msg), Tail(ls), msg)

\* The timeout callback with the listeners removed before the rejection.
OnParseTimeoutRemovesFirst(S, t) ==
  LET S1 == KillParser([ClearTimeout(S, t) EXCEPT !.ppt = 0])
      fn == S1.cb
      S2 == [S1 EXCEPT !.cb = 0]
      S3 == MonitorParserProc(RemoveListeners(S2))
  IN IF S1.threw THEN S1
     ELSE IF fn = 0 THEN [S2 EXCEPT !.threw = TRUE]
     ELSE IF S3.threw THEN S3
     ELSE Settle(S3, fn, FALSE, ErrTimeout, NoModel)

\* The callback of the timer set by _setParserProcTimeout, with the
\* function _runParser passed to it.
OnParseTimeout(S, t) ==
  LET S1 == KillParser([ClearTimeout(S, t) EXCEPT !.ppt = 0])
      fn == S1.cb
      S2 == [S1 EXCEPT !.cb = 0]
  IN IF S1.threw THEN S1
     ELSE IF fn = 0 THEN [S2 EXCEPT !.threw = TRUE]
     ELSE MonitorParserProc(RemoveListeners(Settle(S2, fn, FALSE, ErrTimeout, NoModel)))

\* The callback of the timer set by _monitorParserProc.
OnIdleTimeout(S, t) ==
  KillParser([ClearTimeout(S, t) EXCEPT !.pmt = 0])

\* The 'exit' listener added by _createParserProcess.
OnExit(S) ==
  [CancelMonitorParser(CancelParseProcTimeout(S)) EXCEPT !.pp = 0]

\* The supervisor's fields after a handler, and the continuation of parse()
\* when the handler settled its _runParser() promise: _cleanTempFiles() and
\* the result handed to the caller.
SetSup(S) ==
  /\ ~S.full
  /\ parserProc' = S.pp
  /\ parserProcessTimeout' = S.ppt
  /\ parserProcCb' = S.cb
  /\ parserMonitorTimeout' = S.pmt
  /\ procs' = [p \in ProcIds |-> IF Gone(S.procs[p]) THEN NoProc ELSE S.procs[p]]
  /\ timers' = S.timers
  /\ calls' = S.calls

Commit(S, via, quiet) ==
  /\ SetSup(S)
  /\ IF S.settled # <<>>
     THEN LET r == S.settled[1]
          IN /\ disk' = CleanTempFiles(disk, tmpObj, tmpIsFile, TmpTree)
             /\ content' = CleanContent
             /\ tmpObj' = 0
             /\ last' = [Outcome("parse", IF r.ok THEN "ok" ELSE "rejected", r.err)
                           EXCEPT !.via = via, !.threw = S.threw, !.tmp = tmpObj,
                                  !.model = r.model,
                                  !.type = IF r.ok THEN r.type ELSE NoType,
                                  !.stale = S.stale]
     ELSE /\ last' = quiet
          /\ UNCHANGED <<disk, tmpObj, content>>

\* A callback that settles no call leaves `last` as it is, unless it ends
\* with an uncaught exception.
Callback(S, via) ==
  Commit(S, via, IF S.threw THEN [Outcome("none", "ok", NoErr)
                                    EXCEPT !.via = via, !.threw = TRUE]
                 ELSE last)

\* parse(mainFile) up to the request sent to the worker.
NewCall == Min({ c \in CallIds : ~Live(c) })

Parse(mf) ==
  /\ CallerFree
  /\ LET main == IF mf # NoFile THEN mf ELSE mainFile
         usage == IF workingDir = NoDir THEN ErrPrepare
                  ELSE IF main = NoFile THEN ErrResolve
                  ELSE IF ~FileStrong(disk, workingDir, content, main) THEN ErrType
                  ELSE NoErr
     IN /\ mainFile' = IF workingDir = NoDir THEN mainFile ELSE main
        /\ IF usage # NoErr
           THEN /\ disk' = CleanTempFiles(disk, tmpObj, tmpIsFile, TmpTree)
                /\ content' = CleanContent
                /\ tmpObj' = 0
                /\ last' = [Rejected("parse", usage) EXCEPT !.tmp = tmpObj]
                /\ UNCHANGED supervisor
           ELSE LET type == ReadApiType(main)
                    S == RunParser(Sup, NewCall, [dir |-> workingDir, file |-> main], type)
                IN Commit(S, "parse",
                          [Outcome("parse", "pending", NoErr)
                             EXCEPT !.tmp = tmpObj, !.type = type])
  /\ UNCHANGED <<source, isZip, validate, tmpIsFile, workingDir>>

Frame == <<source, isZip, validate, tmpIsFile, workingDir, mainFile>>

\* ------------------------------------------------------------ the worker

\* amf-parser.js: for a request with validate set the worker sends
\* {validation} before {api}; a failure at any point is answered by {error}.
WorkerValidation(p, report) ==
  /\ procs[p].status = "alive"
  /\ \E j \in procs[p].jobs :
       /\ ~Answered(j)
       /\ j.validate /\ ~j.validated
       /\ LET msg == [ok |-> TRUE, model |-> NoModel, validation |-> report]
              jv == [j EXCEPT !.validated = TRUE, !.sent = Append(@, "validation")]
              S0 == [Sup EXCEPT !.procs[p].jobs = (@ \ {j}) \cup {jv},
                                !.procs[p].superseded =
                                   IF j \in @ THEN (@ \ {j}) \cup {jv} ELSE @]
          IN Callback(RunOnMessage(S0, procs[p].onMessage, msg), "validation")
  /\ UNCHANGED Frame

\* A worker whose handler goes on after its terminal message: it sends
\* {error} or {api} again for a request it has answered.
WorkerReplyRepeats(p, okay) ==
  /\ procs[p].status = "alive"
  /\ \E j \in procs[p].jobs :
       /\ okay /\ j.validate => j.validated
       /\ LET msg == [ok |-> okay, model |-> [proc |-> p, call |-> j.call],
                     validation |-> NoReport]
              S0 == [Sup EXCEPT !.stale = j \in procs[p].superseded,
                                !.procs[p].jobs =
                       (@ \ {j}) \cup {[j EXCEPT !.sent =
                          Append(@, IF okay THEN "api" ELSE "error")]}]
          IN Callback(RunOnMessage(S0, procs[p].onMessage, msg), "message")
  /\ UNCHANGED Frame

WorkerReply(p, okay) ==
  /\ procs[p].status = "alive"
  /\ \E j \in procs[p].jobs :
       /\ ~Answered(j)
       /\ okay /\ j.validate => j.validated
       /\ LET msg == [ok |-> okay, model |-> [proc |-> p, call |-> j.call],
                     validation |-> NoReport]
              S0 == [Sup EXCEPT !.stale = j \in procs[p].superseded,
                                !.procs[p].jobs =
                       (@ \ {j}) \cup {[j EXCEPT !.sent =
                          Append(@, IF okay THEN "api" ELSE "error")]}]
          IN Callback(RunOnMessage(S0, procs[p].onMessage, msg), "message")
  /\ UNCHANGED Frame

\* The process dies on its own: its channel closes, 'exit' follows.
WorkerCrash(p) ==
  /\ procs[p].status = "alive"
  /\ Callback([Sup EXCEPT !.procs[p].status = "crashed",
                          !.procs[p].connected = FALSE,
                          !.procs[p].jobs = {},
                          !.procs[p].superseded = {}],
              "crash")
  /\ UNCHANGED Frame

\* An 'error' event of the child process while a request waits for it.
ProcError(p) ==
  /\ procs[p].status \in {"alive", "crashed"}
  /\ procs[p].onError # <<>>
  /\ Callback(EmitError(Sup, p), "error")
  /\ UNCHANGED Frame

\* The 'exit' event of a process that crashed or was killed.
ProcExit(p) ==
  /\ procs[p].status \in {"crashed", "killed"}
  /\ LET S1 == IF "create" \in procs[p].onExit THEN OnExit(Sup) ELSE Sup
         S2 == [S1 EXCEPT !.procs[p] = NoProc]
     IN /\ SetSup(S2)
        /\ IF "cleanup" \in procs[p].onExit
           THEN CancelSession("cleanup")
           ELSE /\ UNCHANGED <<last, disk, tmpObj, content>>
                /\ UNCHANGED Frame

ParseTimeout(t) ==
  /\ t \in timers /\ t.kind = "parse"
  /\ Callback(OnParseTimeout(Sup, t.id), "timeout")
  /\ UNCHANGED Frame

IdleTimeout(t) ==
  /\ t \in timers /\ t.kind = "idle"
  /\ Callback(OnIdleTimeout(Sup, t.id), "idle")
  /\ UNCHANGED Frame

\* cleanup(): without a process it is cancel(); with one, the process is
\* killed and cancel() runs when its 'exit' event arrives.
Cleanup ==
  LET S1 == CancelParseProcTimeout(CancelMonitorParser(Sup))
      p == S1.pp
      S2 == KillParser(S1)
  IN IF p = 0
     THEN /\ SetSup(S1)
          /\ CancelSession("cleanup")
     ELSE /\ IF S2.threw
             THEN Commit([S2 EXCEPT !.threw = FALSE], "cleanup",
                         Rejected("cleanup", ErrThrown))
             ELSE Commit([S2 EXCEPT !.procs[p].onExit = {"cleanup"}], "cleanup",
                         Outcome("cleanup", "pending", NoErr))
          /\ UNCHANGED Frame

\* ------------------------------------------------------------------- init
Init ==
  /\ source = "none"
  /\ isZip = FALSE
  /\ validate = FALSE
  /\ tmpObj = 0
  /\ tmpIsFile = FALSE
  /\ workingDir = NoDir
  /\ mainFile = NoFile
  /\ disk = [i \in TmpIds |-> "none"]
  /\ content = EmptyTree
  /\ parserProc = 0
  /\ parserProcessTimeout = 0
  /\ parserProcCb = 0
  /\ parserMonitorTimeout = 0
  /\ procs = [p \in ProcIds |-> NoProc]
  /\ timers = {}
  /\ calls = [c \in CallIds |-> NoCall]
  /\ last = Outcome("init", "ok", NoErr)
  /\ loading = FALSE
  /\ loadingId = 0
  /\ note = NoNote
  /\ ren = [k \in Overlap |-> NoRen]
  /\ dom = NoEvent
  /\ resolver = NoResolver

\* ------------------------------------------------------------------- next
Next ==
  \/ \E src \in SourceKinds, zip \in BOOLEAN : SetSource(src, zip, FALSE) /\ UNCHANGED renderer
  \/ \E c \in Contents, written \in BOOLEAN : Prepare(c, written) /\ UNCHANGED renderer
  \/ \E mf \in MainFileArgs, readable \in BOOLEAN : Resolve(mf, readable) /\ UNCHANGED renderer
  \/ \E mf \in MainFileArgs : Parse(mf) /\ UNCHANGED renderer
  \/ Cancel /\ UNCHANGED renderer
  \/ Cleanup /\ UNCHANGED renderer
  \/ \E p \in ProcIds, okay \in BOOLEAN : WorkerReply(p, okay) /\ UNCHANGED renderer
  \/ \E p \in ProcIds : WorkerCrash(p) /\ UNCHANGED renderer
  \/ \E p \in ProcIds : ProcExit(p) /\ UNCHANGED renderer
  \/ \E t \in timers : ParseTimeout(t) /\ UNCHANGED renderer
  \/ \E t \in timers : IdleTimeout(t) /\ UNCHANGED renderer

Spec == Init /\ [][Next]_vars

NextSup ==
  \/ \E val \in BOOLEAN : SetSource("buffer", FALSE, val) /\ UNCHANGED renderer
  \/ \E c \in Contents, written \in BOOLEAN : Prepare(c, written) /\ UNCHANGED renderer
  \/ Resolve(NoFile, TRUE) /\ UNCHANGED renderer
  \/ Parse(NoFile) /\ UNCHANGED renderer
  \/ Cancel /\ UNCHANGED renderer
  \/ Cleanup /\ UNCHANGED renderer
  \/ \E p \in ProcIds, report \in Reports : WorkerValidation(p, report) /\ UNCHANGED renderer
  \/ \E p \in ProcIds, okay \in BOOLEAN : WorkerReply(p, okay) /\ UNCHANGED renderer
  \/ \E p \in ProcIds : WorkerCrash(p) /\ UNCHANGED renderer
  \/ \E p \in ProcIds : ProcError(p) /\ UNCHANGED renderer
  \/ \E p \in ProcIds : ProcExit(p) /\ UNCHANGED renderer
  \/ \E t \in timers : ParseTimeout(t) /\ UNCHANGED renderer
  \/ \E t \in timers : IdleTimeout(t) /\ UNCHANGED renderer

SpecSup == Init /\ [][NextSup]_vars

\* ------------------------------------------------------------ the renderer
\* ElectronAmfService.processBuffer() hands a buffer to the service.  Of the
\* buffer, its first two bytes matter: 0x50 0x4B is the zip signature.
Bytes == {35, 75, 80}
Buffers == [1..2 -> Bytes]

\* _bufferIsZip(buffer)
BufferIsZip(b) == b[1] = 80 /\ b[2] = 75

\* processBuffer(buffer, opts) up to service.setSource(buffer, opts).
ProcessBuffer(b, zip) == SetSource("buffer", zip \/ BufferIsZip(b), FALSE)

\* The steps of processBuffer() and of a caller that cleans up, with the
\* events of the parser process.
NextBuf ==
  \/ \E b \in Buffers, zip \in BOOLEAN : ProcessBuffer(b, zip) /\ UNCHANGED renderer
  \/ \E c \in Contents, written \in BOOLEAN : Prepare(c, written) /\ UNCHANGED renderer
  \/ \E mf \in MainFileArgs, readable \in BOOLEAN : Resolve(mf, readable) /\ UNCHANGED renderer
  \/ \E mf \in MainFileArgs : Parse(mf) /\ UNCHANGED renderer
  \/ Cancel /\ UNCHANGED renderer
  \/ Cleanup /\ UNCHANGED renderer
  \/ \E p \in ProcIds, okay \in BOOLEAN : WorkerReply(p, okay) /\ UNCHANGED renderer
  \/ \E p \in ProcIds : WorkerCrash(p) /\ UNCHANGED renderer
  \/ \E p \in ProcIds : ProcExit(p) /\ UNCHANGED renderer
  \/ \E t \in timers : ParseTimeout(t) /\ UNCHANGED renderer
  \/ \E t \in timers : IdleTimeout(t) /\ UNCHANGED renderer

SpecBuf == Init /\ [][NextBuf]_vars

\* ------------------------------------------------- the renderer's pipeline
\* set loading(value): nothing when the value does not change; otherwise a
\* start notification with a new id, or a stop notification with the id of
\* the start.
Loading == [loading |-> loading, id |-> loadingId, note |-> note]

\* The setter without the test for an unchanged value: every assignment
\* dispatches a notification.
SetLoadingAlways(L, value, stamp) ==
  IF value
  THEN [loading |-> TRUE, id |-> stamp, note |-> [kind |-> "start", id |-> stamp]]
  ELSE [loading |-> FALSE, id |-> L.id, note |-> [kind |-> "stop", id |-> L.id]]

SetLoading(L, value, stamp) ==
  IF L.loading = value THEN L
  ELSE IF value
    THEN [loading |-> TRUE, id |-> stamp, note |-> [kind |-> "start", id |-> stamp]]
    ELSE [loading |-> FALSE, id |-> L.id, note |-> [kind |-> "stop", id |-> L.id]]

RenSet(L, r) ==
  /\ loading' = L.loading
  /\ loadingId' = L.id
  /\ note' = L.note
  /\ ren' = r

\* The end of processBuffer() and of the method that called it: loading is
\* set to false and the promise settles.
Finish(k, out, err, val) ==
  RenSet(SetLoading(Loading, FALSE, 0),
         [ren EXCEPT ![k] = [NoRen EXCEPT !.op = ren[k].op, !.pc = "done",
                                         !.out = out, !.err = err, !.val = val]])

\* The MD5 digest of a buffer, as a function of the bytes followed; like
\* MD5 it maps different buffers to the same digest only by accident.
Digest(b) == (b[1] + b[2]) % 3
\* The md5 argument: <<>> when it is not given, else one digest.
NoMd5 == <<>>
Md5Args == {NoMd5} \cup { <<Digest(b)>> : b \in Buffers }

\* _checkIntegrity() that returns the buffer whatever the hash.
CheckIntegrityAlways(b, md5) == TRUE

\* _checkIntegrity(buffer, md5): does it return (TRUE) or throw.
CheckIntegrity(b, md5) == md5 = NoMd5 \/ <<Digest(b)>> = md5

\* processApiLink(url, mainFile, md5, packaging) up to the download.
CallLink(k, mf, md5, zip, stamp) ==
  /\ ren[k].pc \in {"idle", "done"}
  /\ RenSet(SetLoading(Loading, TRUE, stamp),
            [ren EXCEPT ![k] = [NoRen EXCEPT !.op = "link", !.pc = "download",
                                            !.main = mf, !.md5 = md5, !.zip = zip]])
  /\ UNCHANGED <<session, supervisor>>

\* processApiFile(file) up to _fileToBuffer().
CallFile(k, stamp) ==
  /\ ren[k].pc \in {"idle", "done"}
  /\ RenSet(SetLoading(Loading, TRUE, stamp),
            [ren EXCEPT ![k] = [NoRen EXCEPT !.op = "file", !.pc = "download"]])
  /\ UNCHANGED <<session, supervisor>>

\* processBuffer(buffer, opts) called by the application, up to prepare().
CallBuffer(k, b, zip, mf, stamp) ==
  /\ ren[k].pc \in {"idle", "done"}
  /\ ProcessBuffer(b, zip)
  /\ RenSet(SetLoading(Loading, TRUE, stamp),
            [ren EXCEPT ![k] = [NoRen EXCEPT !.op = "buffer", !.pc = "prepare",
                                            !.optMain = mf]])

\* downloadRamlData() or _fileToBuffer() settles; processApiLink() checks
\* the hash; processBuffer(buffer) runs up to prepare().
Downloaded(k, okay, b, stamp) ==
  /\ ren[k].pc = "download"
  /\ IF ~okay
     THEN /\ Finish(k, "rejected", ErrDownload, "none")
          /\ UNCHANGED <<session, supervisor>>
     ELSE IF ren[k].op = "link" /\ ~CheckIntegrity(b, ren[k].md5)
     THEN /\ Finish(k, "rejected", ErrChecksum, "none")
          /\ UNCHANGED <<session, supervisor>>
     ELSE /\ ProcessBuffer(b, FALSE)
          /\ RenSet(SetLoading(Loading, TRUE, stamp),
                    [ren EXCEPT ![k].pc = "prepare", ![k].optMain = NoFile])

\* The continuation of processBuffer() after a method of the service that
\* has just run: rejected, the call ends; otherwise it goes on at `pc`.
Continue(k, pc) ==
  IF last'.outcome = "rejected"
  THEN Finish(k, "rejected", last'.err, "none")
  ELSE IF last'.op = "parse" /\ last'.outcome = "ok"
  THEN Finish(k, "resolved", NoErr, "model")
  ELSE RenSet(Loading, [ren EXCEPT ![k].pc = pc])

RenPrepare(k, c, written) ==
  /\ ren[k].pc = "prepare"
  /\ Prepare(c, written)
  /\ Continue(k, "resolve")

RenResolve(k, readable) ==
  /\ ren[k].pc = "resolve"
  /\ Resolve(ren[k].optMain, readable)
  /\ Continue(k, IF last'.list # <<>> THEN "choose" ELSE "parse")

RenParse(k) ==
  /\ ren[k].pc = "parse"
  /\ Parse(NoFile)
  /\ Continue(k, "parsing")

\* _processCandidates() without its cancel() calls: the session is left as
\* it is when no file is chosen.
ChooseWithoutCancel(k, choice, fails) ==
  /\ ren[k].pc = "choose"
  /\ IF fails
     THEN /\ UNCHANGED <<session, supervisor>>
          /\ Finish(k, "rejected", ErrChooser, "none")
     ELSE IF choice = NoFile
     THEN /\ UNCHANGED <<session, supervisor>>
          /\ Finish(k, "resolved", NoErr, "undefined")
     ELSE /\ Parse(choice)
          /\ Continue(k, "parsing")

\* _processCandidates(): notifyApiCandidates() settles with a file, with
\* undefined, or fails.
Choose(k, choice, fails) ==
  /\ ren[k].pc = "choose"
  /\ IF fails
     THEN /\ Cancel
          /\ Finish(k, "rejected", ErrChooser, "none")
     ELSE IF choice = NoFile
     THEN /\ Cancel
          /\ Finish(k, "resolved", NoErr, "undefined")
     ELSE /\ Parse(choice)
          /\ Continue(k, "parsing")

\* An event of the parser process or a timer: when it settles the parse()
\* a call awaits, processBuffer() goes on to its end.
Settles == \E c \in CallIds : calls[c].status = "pending" /\ calls'[c].status # "pending"

Awaited ==
  /\ IF Settles /\ \E k \in DOMAIN ren : ren[k].pc = "parsing"
     THEN \E k \in DOMAIN ren : ren[k].pc = "parsing" /\ Continue(k, "parsing")
     ELSE UNCHANGED renderer

NextRen ==
  \/ \E k \in RenCalls, mf \in {NoFile, TopFile(1)}, md5 \in Md5Args,
        zip \in BOOLEAN, stamp \in Stamps : CallLink(k, mf, md5, zip, stamp) /\ UNCHANGED <<dom, resolver>>
  \/ \E k \in RenCalls, stamp \in Stamps : CallFile(k, stamp) /\ UNCHANGED <<dom, resolver>>
  \/ \E k \in RenCalls, b \in Buffers, zip \in BOOLEAN, mf \in {NoFile, TopFile(1)},
        stamp \in Stamps : CallBuffer(k, b, zip, mf, stamp) /\ UNCHANGED <<dom, resolver>>
  \/ \E k \in RenCalls, okay \in BOOLEAN, b \in Buffers, stamp \in Stamps :
        Downloaded(k, okay, b, stamp) /\ UNCHANGED <<dom, resolver>>
  \/ \E k \in RenCalls, c \in Contents, written \in BOOLEAN : RenPrepare(k, c, written) /\ UNCHANGED <<dom, resolver>>
  \/ \E k \in RenCalls, readable \in BOOLEAN : RenResolve(k, readable) /\ UNCHANGED <<dom, resolver>>
  \/ \E k \in RenCalls : RenParse(k) /\ UNCHANGED <<dom, resolver>>
  \/ \E k \in RenCalls, choice \in MainFileArgs, fails \in BOOLEAN : Choose(k, choice, fails) /\ UNCHANGED <<dom, resolver>>
  \/ \E p \in ProcIds, okay \in BOOLEAN : WorkerReply(p, okay) /\ Awaited /\ UNCHANGED <<dom, resolver>>
  \/ \E p \in ProcIds : WorkerCrash(p) /\ Awaited /\ UNCHANGED <<dom, resolver>>
  \/ \E p \in ProcIds : ProcExit(p) /\ Awaited /\ UNCHANGED <<dom, resolver>>
  \/ \E t \in timers : ParseTimeout(t) /\ Awaited /\ UNCHANGED <<dom, resolver>>
  \/ \E t \in timers : IdleTimeout(t) /\ Awaited /\ UNCHANGED <<dom, resolver>>

SpecRen == Init /\ [][NextRen]_vars

\* ------------------------------------------------------ overlapping calls
\* The application calls processBuffer() with an archive while another call
\* waits for the user to choose the entry file (the dialog of
\* notifyApiCandidates() is open), or while no call is under way.
ZipBuffer == <<80, 75>>
AtRest(k) == ren[k].pc \in {"idle", "done", "choose"}

CallDuring(k, stamp) ==
  /\ \A o \in Overlap \ {k} : AtRest(o)
  /\ CallBuffer(k, ZipBuffer, FALSE, NoFile, stamp)

\* A step of call k while the other call is at rest.  The user closes the
\* dialog at any time, also while the other call is under way.
Alone(k) == \A o \in Overlap \ {k} : AtRest(o)

NextTwo ==
  \/ \E k \in Overlap, stamp \in Stamps : CallDuring(k, stamp) /\ UNCHANGED <<dom, resolver>>
  \/ \E k \in Overlap, c \in Contents : Alone(k) /\ RenPrepare(k, c, TRUE) /\ UNCHANGED <<dom, resolver>>
  \/ \E k \in Overlap : Alone(k) /\ RenResolve(k, TRUE) /\ UNCHANGED <<dom, resolver>>
  \/ \E k \in Overlap : Alone(k) /\ RenParse(k) /\ UNCHANGED <<dom, resolver>>
  \/ \E k \in Overlap, choice \in MainFileArgs, fails \in BOOLEAN :
        Choose(k, choice, fails) /\ UNCHANGED <<dom, resolver>>
  \/ \E p \in ProcIds, okay \in BOOLEAN : WorkerReply(p, okay) /\ Awaited /\ UNCHANGED <<dom, resolver>>
  \/ \E p \in ProcIds : WorkerCrash(p) /\ Awaited /\ UNCHANGED <<dom, resolver>>
  \/ \E p \in ProcIds : ProcExit(p) /\ Awaited /\ UNCHANGED <<dom, resolver>>
  \/ \E t \in timers : ParseTimeout(t) /\ Awaited /\ UNCHANGED <<dom, resolver>>

SpecTwo == Init /\ [][NextTwo]_vars

\* --------------------------------------------------- the resolver process
\* _killResolver(proc) that removes the listeners but leaves the process
\* running.
KillResolverDetaches(R, p) ==
  [R EXCEPT !.procs[p].connected = FALSE, !.procs[p].listening = FALSE]

\* _killResolver(proc): disconnect() when connected, removeAllListeners() for
\* 'message' and 'error', kill().  kill() on a process that is already dead
\* does nothing.
KillResolver(R, p) ==
  [R EXCEPT !.procs[p].connected = FALSE, !.procs[p].listening = FALSE,
            !.procs[p].status = IF @ = "alive" THEN "killed" ELSE @]

\* The slots a new call and its process can take: a call that is not
\* pending, a process id that has exited and that no call refers to.
FreeResCalls(R) == { c \in ResIds : R.calls[c].out # "pending" }
FreeResProcs(R) ==
  { p \in ResIds : R.procs[p].status = "none"
                     /\ \A c \in ResIds : R.calls[c].proc # p }

\* resolveAPiConsole(model, type): _createResolverProcess() forks a process,
\* the 'message' and 'error' listeners are attached and the request is sent.
ResolveAPiConsole(R) ==
  LET c == Min(FreeResCalls(R))
      R0 == [R EXCEPT !.calls[c] = NoResCall]
      p == Min(FreeResProcs(R0))
  IN [R0 EXCEPT !.calls[c] = [out |-> "pending", proc |-> p, val |-> NoVal],
                !.procs[p] = [status |-> "alive", connected |-> TRUE,
                              listening |-> TRUE, job |-> "working"]]

StartResolver ==
  /\ FreeResCalls(resolver) # {}
  /\ LET c == Min(FreeResCalls(resolver))
     IN FreeResProcs([resolver EXCEPT !.calls[c] = NoResCall]) # {}
  /\ resolver' = ResolveAPiConsole(resolver)

\* The call whose listeners are attached to process p.
CallOf(R, p) ==
  CHOOSE c \in ResIds : R.calls[c].proc = p /\ R.calls[c].out = "pending"

\* onmessage of resolveAPiConsole(): _killResolver(proc), then reject with
\* result.error or resolve with result.api.
OnResolverMessage(R, p, okay) ==
  LET c == CallOf(R, p)
      R1 == KillResolver(R, p)
  IN IF okay
       THEN [R1 EXCEPT !.calls[c].out = "resolved",
                       !.calls[c].val = [kind |-> "api", from |-> p, msg |-> NoErr]]
       ELSE [R1 EXCEPT !.calls[c].out = "rejected",
                       !.calls[c].val = [kind |-> "error", from |-> p,
                                         msg |-> ErrResolver]]

\* onerror of resolveAPiConsole(): _killResolver(proc), then reject with
\* err.message || 'Unknown error'.
OnResolverError(R, p, message) ==
  LET c == CallOf(R, p)
      R1 == KillResolver(R, p)
  IN [R1 EXCEPT !.calls[c].out = "rejected",
                !.calls[c].val = [kind |-> "error", from |-> p,
                                  msg |-> IF message = NoErr THEN ErrUnknown
                                          ELSE message]]

\* amf-resolver.js answers its request with one message, {api} or {error}.
ResolverReply(p, okay) ==
  /\ resolver.procs[p].status = "alive"
  /\ resolver.procs[p].job = "working"
  /\ LET R1 == [resolver EXCEPT !.procs[p].job = "answered"]
     IN resolver' = IF resolver.procs[p].listening
                      THEN OnResolverMessage(R1, p, okay)
                      ELSE R1
  /\ UNCHANGED <<session, supervisor, loading, loadingId, note, ren, dom>>

\* An 'error' event of the process while the listeners are attached.
ResolverError(p, message) ==
  /\ resolver.procs[p].status \in {"alive", "crashed"}
  /\ resolver.procs[p].listening
  /\ resolver' = OnResolverError(resolver, p, message)
  /\ UNCHANGED <<session, supervisor, loading, loadingId, note, ren, dom>>

\* The resolver process dies by itself; its channel closes.
ResolverCrash(p) ==
  /\ resolver.procs[p].status = "alive"
  /\ resolver' = [resolver EXCEPT !.procs[p].status = "crashed",
                                  !.procs[p].connected = FALSE]
  /\ UNCHANGED <<session, supervisor, loading, loadingId, note, ren, dom>>

\* The operating system reports the exit of a dead or killed process.
ResolverExit(p) ==
  /\ resolver.procs[p].status \in {"crashed", "killed"}
  /\ resolver' = [resolver EXCEPT !.procs[p].status = "none"]
  /\ UNCHANGED <<session, supervisor, loading, loadingId, note, ren, dom>>

\* ------------------------------------------------- the DOM event handlers
\* detail.file of api-process-file and detail.model, detail.type of
\* api-resolve-model, by what the handlers test: a missing property and the
\* empty string are falsy, an object is no string.
FileArgs == {"missing", "blob"}
ModelArgs == {"missing", "empty", "object", "string"}
TypeArgs == {"missing", "RAML 1.0"}
Falsy(x) == x \in {"missing", "empty"}
IsString(x) == x \in {"empty", "string"}

\* A handler that returns at once: the event was already defaultPrevented.
Ignored(type) ==
  /\ dom' = [NoEvent EXCEPT !.type = type, !.prevented = TRUE]
  /\ UNCHANGED <<session, supervisor, loading, loadingId, note, ren, resolver>>

\* detail.result = Promise.reject(new Error(err))
RejectedByHandler(type, err) ==
  /\ dom' = [NoEvent EXCEPT !.type = type, !.prevented = TRUE,
                            !.result = "rejected", !.err = err]
  /\ UNCHANGED <<session, supervisor, loading, loadingId, note, ren, resolver>>

\* _assetHandler(e) for api-process-link
AssetHandler(k, prevented, mf, md5, zip, stamp) ==
  IF prevented THEN Ignored("api-process-link")
  ELSE /\ CallLink(k, mf, md5, zip, stamp)
       /\ dom' = [NoEvent EXCEPT !.type = "api-process-link", !.prevented = TRUE,
                                 !.result = "processApiLink"]
       /\ UNCHANGED resolver

\* _fileHandler(e) for api-process-file
FileHandler(k, prevented, file, stamp) ==
  IF prevented THEN Ignored("api-process-file")
  ELSE IF Falsy(file) THEN RejectedByHandler("api-process-file", ErrNoFile)
  ELSE /\ CallFile(k, stamp)
       /\ dom' = [NoEvent EXCEPT !.type = "api-process-file", !.prevented = TRUE,
                                 !.result = "processApiFile"]
       /\ UNCHANGED resolver

\* _resolveHandler() without its tests of detail.model and detail.type.
ResolveHandlerUnchecked(prevented, model, type) ==
  IF prevented THEN Ignored("api-resolve-model")
  ELSE /\ dom' = [NoEvent EXCEPT !.type = "api-resolve-model", !.prevented = TRUE,
                                 !.result = "resolveAPiConsole", !.forked = TRUE]
       /\ StartResolver
       /\ UNCHANGED <<session, supervisor, loading, loadingId, note, ren>>

\* _resolveHandler(e) for api-resolve-model; resolveAPiConsole() forks the
\* resolver process.
ResolveHandler(prevented, model, type) ==
  IF prevented THEN Ignored("api-resolve-model")
  ELSE IF Falsy(model) THEN RejectedByHandler("api-resolve-model", ErrNoModel)
  ELSE IF ~IsString(model) THEN RejectedByHandler("api-resolve-model", ErrModelType)
  ELSE IF Falsy(type) THEN RejectedByHandler("api-resolve-model", ErrNoApiType)
  ELSE /\ dom' = [NoEvent EXCEPT !.type = "api-resolve-model", !.prevented = TRUE,
                                 !.result = "resolveAPiConsole", !.forked = TRUE]
       /\ StartResolver
       /\ UNCHANGED <<session, supervisor, loading, loadingId, note, ren>>

\* The events dispatched to the handlers, and the downloads of the calls
\* they start.
NextDom ==
  \/ \E k \in RenCalls, prevented \in BOOLEAN, mf \in {NoFile, TopFile(1)},
        md5 \in Md5Args, zip \in BOOLEAN, stamp \in Stamps :
        AssetHandler(k, prevented, mf, md5, zip, stamp)
  \/ \E k \in RenCalls, prevented \in BOOLEAN, file \in FileArgs, stamp \in Stamps :
        FileHandler(k, prevented, file, stamp)
  \/ \E prevented \in BOOLEAN, model \in ModelArgs, type \in TypeArgs :
        ResolveHandler(prevented, model, type)
  \/ \E k \in RenCalls, okay \in BOOLEAN, b \in Buffers, stamp \in Stamps :
        Downloaded(k, okay, b, stamp) /\ UNCHANGED <<dom, resolver>>

SpecDom == Init /\ [][NextDom]_vars

\* The api-resolve-model events and the life of the resolver processes.
NextRes ==
  \/ \E prevented \in BOOLEAN, model \in ModelArgs, type \in TypeArgs :
        ResolveHandler(prevented, model, type)
  \/ \E p \in ResIds, okay \in BOOLEAN : ResolverReply(p, okay)
  \/ \E p \in ResIds, message \in {NoErr, ErrChannel} : ResolverError(p, message)
  \/ \E p \in ResIds : ResolverCrash(p)
  \/ \E p \in ResIds : ResolverExit(p)

SpecRes == Init /\ [][NextRes]_vars

\* ----------------------------------------------------------------- claims
\* The temp resource `id` is no longer on the disk.
Deleted(d, id) == id # 0 => d[id] = "none"

\* The state in which resolve(mf) reaches the entry-point search.
Searches(mf, readable) ==
  /\ ~tmpIsFile
  /\ workingDir # NoDir
  /\ mainFile = NoFile
  /\ mf = NoFile
  /\ readable
  /\ DirExists(disk, workingDir)

\* C1: once parse() has settled, with a model or with an error, the session
\* holds no temp resource and the temp file or directory it held is no longer
\* on the disk.
C1_ParseLeavesNoTemp ==
  (last.op = "parse" /\ last.outcome \in {"ok", "rejected"})
    => (tmpObj = 0 /\ Deleted(disk, last.tmp))

\* C2: whenever prepare() or resolve() rejects, the temp resource of the
\* session has been deleted and the session no longer holds it.
C2_RejectionCleansTemp ==
  (last.op \in {"prepare", "resolve"} /\ last.outcome = "rejected")
    => (tmpObj = 0 /\ Deleted(disk, last.tmp))

C4_ExitSettlesPending ==
  [][\A p \in ProcIds : \A c \in CallIds :
       (/\ ProcExit(p)
        /\ procs[p].status = "crashed"
        /\ calls[c].status = "pending"
        /\ calls[c].proc = p)
       => calls'[c].status # "pending"]_vars

\* C5: resolve(mainFile) with a name that does not exist under the working
\* directory of a prepared, unpinned session rejects with 'API main file
\* does not exist.', pins nothing and sends nothing to the worker.
C5_MissingMainFileRejected ==
  [][\A mf \in MainFileArgs, readable \in BOOLEAN :
       (/\ Resolve(mf, readable)
        /\ ~tmpIsFile
        /\ workingDir # NoDir
        /\ mainFile = NoFile
        /\ mf # NoFile
        /\ ~FileExists(disk, workingDir, content, mf))
       => /\ last'.outcome = "rejected"
          /\ last'.err = ErrNoMain
          /\ mainFile' = NoFile
          /\ UNCHANGED supervisor]_vars

\* C6: after setSource() the temp handle, the working directory, the entry
\* file and the temp-is-file tag are all cleared.
C6_SetSourceResetsAll ==
  last.op = "setSource"
    => (tmpObj = 0 /\ workingDir = NoDir /\ mainFile = NoFile /\ ~tmpIsFile)

\* C7: resolve() called while no working directory is set rejects with
\* 'prepare() function not called'.
C7_ResolveNeedsPrepare ==
  (last.op = "resolve" /\ workingDir = NoDir)
    => (last.outcome = "rejected" /\ last.err = ErrPrepare)

\* C8: parse() called before prepare(), or with no entry file pinned and no
\* mainFile argument, rejects with the usage error, sends nothing to the
\* worker, and the temp resource of the session is deleted.
C8_ParseUsageErrors ==
  [][\A mf \in MainFileArgs :
       (/\ Parse(mf)
        /\ workingDir = NoDir \/ (mainFile = NoFile /\ mf = NoFile))
       => /\ last'.op = "parse"
          /\ last'.outcome = "rejected"
          /\ last'.err = IF workingDir = NoDir THEN ErrPrepare ELSE ErrResolve
          /\ UNCHANGED supervisor
          /\ tmpObj' = 0
          /\ Deleted(disk', tmpObj)]_vars

\* C9: when the entry-point search is ambiguous, resolve() returns the list
\* of candidates without error, pins no entry file and leaves the temp
\* resource, the working directory and its files as they are.
C9_AmbiguousKeepsSession ==
  [][\A mf \in MainFileArgs, readable \in BOOLEAN :
       (/\ Searches(mf, readable)
        /\ FindApiFile(content).kind = "many"
        /\ Resolve(mf, readable))
       => /\ last'.op = "resolve"
          /\ last'.outcome = "ok"
          /\ last'.list = FindApiFile(content).list
          /\ mainFile' = NoFile
          /\ UNCHANGED <<tmpObj, workingDir, disk, content, supervisor>>]_vars

\* C9 witness: resolve() returned candidates of an extracted archive whose
\* temp directory is still held and on the disk.
C9_CandidatesReturned ==
  /\ last.op = "resolve"
  /\ last.outcome = "ok"
  /\ last.list # <<>>
  /\ mainFile = NoFile
  /\ tmpObj # 0
  /\ disk[tmpObj] = "dir"
  /\ workingDir = TmpDir(tmpObj)

\* C10: a candidate list returned by resolve() has at least two entries; a
\* single plausible file is pinned and not returned as a list.
C10_ListsHaveTwoEntries ==
  [][/\ last'.op = "resolve" => (last'.list = <<>> \/ Len(last'.list) >= 2)
     /\ \A mf \in MainFileArgs, readable \in BOOLEAN :
          (/\ Searches(mf, readable)
           /\ FindApiFile(content).kind = "one"
           /\ Resolve(mf, readable))
          => /\ last'.list = <<>>
             /\ last'.outcome = "ok"
             /\ mainFile' = FindApiFile(content).file]_vars

\* C10 witness: the search found a single plausible file among several and
\* pinned it.
C10_SinglePinned ==
  /\ last.op = "resolve"
  /\ last.outcome = "ok"
  /\ last.list = <<>>
  /\ mainFile.dir \in {"top", "root"}
  /\ Len(Candidates(content)) >= 2
  /\ Len(StrongCandidates(content)) = 1
  /\ mainFile = StrongCandidates(content)[1]

\* C11: when the search finds exactly one entry file, resolve() pins it and
\* returns no list; a parse() without argument that follows is not refused
\* as a usage error, and is sent to the worker when the file has a header.
C11_SingleFilePinned ==
  [][/\ \A mf \in MainFileArgs, readable \in BOOLEAN :
          (/\ Searches(mf, readable)
           /\ FindApiFile(content).kind = "one"
           /\ Resolve(mf, readable))
          => /\ last'.op = "resolve"
             /\ last'.outcome = "ok"
             /\ last'.list = <<>>
             /\ mainFile' = FindApiFile(content).file
             /\ workingDir' = workingDir
     /\ (/\ last.op = "resolve"
         /\ last.outcome = "ok"
         /\ ~tmpIsFile
         /\ workingDir # NoDir
         /\ FindApiFile(content).kind = "one"
         /\ mainFile = FindApiFile(content).file
         /\ Parse(NoFile))
        => /\ last'.err \notin {ErrPrepare, ErrResolve}
           /\ mainFile' = mainFile
           /\ FileStrong(disk, workingDir, content, mainFile')
                => last'.outcome = "pending"]_vars

\* C11 witness: a parse() without argument was sent to the worker for the
\* file the search had pinned.
C11_ParsePinnedFile ==
  /\ last.op = "parse"
  /\ last.outcome = "pending"
  /\ ~tmpIsFile
  /\ workingDir.loc \in {"tmpdir", "src"}
  /\ FindApiFile(content).kind = "one"
  /\ mainFile = FindApiFile(content).file

\* C12: a cleanup() called right after a cleanup() has completed completes
\* at once without error, deletes nothing, kills nothing and changes no
\* field of the session.
C12_CleanupTwice ==
  [][(/\ last.op = "cleanup"
      /\ last.outcome = "ok"
      /\ Cleanup)
     => /\ last'.op = "cleanup"
        /\ last'.outcome = "ok"
        /\ ~last'.threw
        /\ UNCHANGED <<disk, content, tmpObj, workingDir, mainFile>>
        /\ UNCHANGED <<source, isZip, validate, tmpIsFile>>
        /\ UNCHANGED <<parserProc, procs, calls>>]_vars

\* C12 witness: the second of two cleanup() calls in a row has completed,
\* on an instance that had prepared a buffer, with nothing left on the disk.
C12_SecondCleanupDone ==
  /\ last.op = "cleanup"
  /\ last.outcome = "ok"
  /\ last.again
  /\ tmpIsFile
  /\ \A i \in TmpIds : disk[i] = "none"

\* C13: cleanup() never fails, and once it has completed there is no live
\* worker process, no pending parse-timeout or idle timer, no temp resource
\* of the session on the disk, and the working directory and the entry file
\* are unset.
C13_CleanupTearsDown ==
  last.op = "cleanup"
    => /\ last.outcome # "rejected"
       /\ last.outcome = "ok"
            => /\ parserProc = 0
               /\ \A p \in ProcIds : procs[p].status # "alive"
               /\ timers = {}
               /\ tmpObj = 0
               /\ Deleted(disk, last.tmp)
               /\ workingDir = NoDir
               /\ mainFile = NoFile

\* C14: cancel() called on a prepared session deletes the temp resource of
\* the session, unsets the temp handle, the working directory and the entry
\* file, and sends nothing to the parser worker.
C14_CancelDiscards ==
  [][(workingDir # NoDir /\ Cancel)
     => /\ last'.op = "cancel"
        /\ last'.outcome = "ok"
        /\ tmpObj' = 0
        /\ workingDir' = NoDir
        /\ mainFile' = NoFile
        /\ Deleted(disk', tmpObj)
        /\ UNCHANGED supervisor]_vars

\* C15: processBuffer() makes the session an archive session exactly when
\* opts.zip is set or the buffer starts with 0x50 0x4B.  In an archive
\* session prepare() unpacks a readable archive into a temp directory and
\* resolve() without argument gives what the search over the unpacked files
\* gives; otherwise the buffer is written to a temp file, which is the entry
\* file.
C15_ZipSignatureDetected ==
  [][/\ \A b \in Buffers, zip \in BOOLEAN :
          ProcessBuffer(b, zip)
          => /\ source' = "buffer"
             /\ isZip' = (zip \/ (b[1] = 80 /\ b[2] = 75))
     /\ \A c \in Contents, written \in BOOLEAN :
          (/\ source = "buffer"
           /\ last'.op = "prepare"
           /\ last'.outcome = "ok"
           /\ Prepare(c, written))
          => IF isZip
             THEN /\ tmpObj' # 0
                  /\ disk'[tmpObj'] = "dir"
                  /\ workingDir' = TmpDir(tmpObj')
                  /\ mainFile' = NoFile
                  /\ content' = RemoveZipMainFolder(c.tree)
             ELSE /\ tmpObj' # 0
                  /\ disk'[tmpObj'] = "file"
                  /\ workingDir' = TmpParent
                  /\ mainFile' = TmpFile(tmpObj')
     /\ (/\ source = "buffer"
         /\ isZip
         /\ last.op = "prepare"
         /\ last.outcome = "ok"
         /\ Resolve(NoFile, TRUE))
        => LET r == SearchOutcome(FindApiFile(content))
           IN /\ last'.outcome = r.out.outcome
              /\ last'.err = r.out.err
              /\ last'.list = r.out.list
              /\ mainFile' = r.pin]_vars

\* C16: for an archive whose top level, __MACOSX aside, is one directory
\* wrapping N files, after prepare() the working directory has exactly those
\* N files at its top level and the wrapping directory is no longer there.
C16_RootFolderRemoved ==
  [][\A c \in Contents, written \in BOOLEAN :
       (/\ isZip
        /\ c.arch /\ ~c.corrupt
        /\ c.tree.root /\ c.tree.tf = 0
        /\ last'.op = "prepare"
        /\ last'.outcome = "ok"
        /\ Prepare(c, written))
       => /\ content'.tf = c.tree.rf
          /\ content'.ts = c.tree.rs
          /\ ~content'.root]_vars

C18_WorkerReused ==
  [][/\ \A c \in CallIds :
          (/\ calls[c].status = "pending"
           /\ calls'[c].status = "none"
           /\ last'.op = "parse" /\ last'.outcome = "ok")
          => /\ parserProc' = calls[c].proc
             /\ procs'[parserProc'].status = "alive"
             /\ procs'[parserProc'].connected
             /\ \E t \in timers' : t.kind = "idle" /\ t.id = parserMonitorTimeout'
     /\ (/\ parserProc # 0
         /\ procs[parserProc].status = "alive"
         /\ procs[parserProc].connected
         /\ last'.op = "parse" /\ last'.outcome = "pending")
          => /\ parserProc' = parserProc
             /\ \A p \in ProcIds \ {parserProc} : procs'[p] = procs[p]]_vars

\* C19: after every step, a worker the session holds that is alive while no
\* parse request is in flight has the idle timer pending; the callback of
\* that timer kills the worker; and a request that is sent has cancelled the
\* idle timer.
C19_IdleWorkerTimed ==
  [][/\ (/\ parserProc' # 0
         /\ procs'[parserProc'].status = "alive"
         /\ \A c \in CallIds : calls'[c].status # "pending")
          => \E t \in timers' : t.kind = "idle" /\ t.id = parserMonitorTimeout'
     /\ \A t \in timers :
          (/\ t.kind = "idle"
           /\ parserProc # 0
           /\ procs[parserProc].status = "alive"
           /\ last'.via = "idle"
           /\ IdleTimeout(t))
          => /\ parserProc' = 0
             /\ procs'[parserProc].status # "alive"
             /\ \A u \in timers' : u.kind # "idle"
     /\ (last'.op = "parse" /\ last'.outcome = "pending" /\ last.outcome # "pending")
          => \A t \in timers' : t.kind # "idle"]_vars

\* C19 witness: a worker error has rejected the request; the worker is still
\* alive and referenced, no request is in flight and the idle timer runs.
C19_IdleAfterError ==
  /\ last.op = "parse" /\ last.via = "error"
  /\ parserProc # 0
  /\ procs[parserProc].status = "alive"
  /\ \A c \in CallIds : calls[c].status # "pending"
  /\ \E t \in timers : t.kind = "idle" /\ t.id = parserMonitorTimeout

\* C20: a {validation} message settles no request: the call stays pending,
\* its listeners stay attached, the parse timer stays armed for it, the
\* worker stays referenced and nothing is reported to the caller.
C20_ValidationNotTerminal ==
  [][\A p \in ProcIds, report \in Reports :
       (/\ procs[p].status = "alive"
        /\ \E j \in procs[p].jobs : j.validate /\ ~j.validated
        /\ WorkerValidation(p, report))
       => /\ calls' = calls
          /\ timers' = timers
          /\ parserProcCb' = parserProcCb
          /\ parserProcessTimeout' = parserProcessTimeout
          /\ parserProc' = parserProc
          /\ procs'[p].onMessage = procs[p].onMessage
          /\ procs'[p].onError = procs[p].onError
          /\ last' = last
          /\ disk' = disk /\ tmpObj' = tmpObj]_vars

\* C20 witness: the worker has sent {validation} for the request in flight,
\* which is still pending with its listener and its timer.
C20_ValidatedAndWaiting ==
  \E p \in ProcIds : \E j \in procs[p].jobs :
    /\ j.validated
    /\ calls[j.call].status = "pending"
    /\ parserProcCb = j.call
    /\ \E t \in timers : t.kind = "parse" /\ t.id = parserProcessTimeout
    /\ \E i \in DOMAIN procs[p].onMessage : procs[p].onMessage[i] = j.call

C22_ParseReturnsToIdle ==
  (last.op = "parse" /\ last.outcome \in {"ok", "rejected"})
    => (tmpObj = 0 /\ workingDir = NoDir /\ mainFile = NoFile)

\* C23: processApiLink() applies its arguments.  When mainFile names a file
\* of the prepared working directory, resolve() pins it without searching;
\* when packaging is 'zip', the download is handed to the service as an
\* archive.
C23_LinkOptionsApplied ==
  [][/\ \A k \in RenCalls, readable \in BOOLEAN :
          (/\ ren[k].op = "link"
           /\ ren[k].pc = "resolve"
           /\ ren[k].main # NoFile
           /\ ~tmpIsFile
           /\ workingDir # NoDir
           /\ mainFile = NoFile
           /\ FileExists(disk, workingDir, content, ren[k].main)
           /\ RenResolve(k, readable))
          => /\ last'.outcome = "ok"
             /\ last'.list = <<>>
             /\ mainFile' = ren[k].main
     /\ \A k \in RenCalls :
          (/\ ren[k].op = "link"
           /\ ren[k].pc = "download"
           /\ ren[k].zip
           /\ ren'[k].pc = "prepare")
          => isZip']_vars

\* C24: loading notifications are paired.  A step that dispatches one
\* dispatches a start when the last one was a stop (or there was none), or a
\* stop with the id of the start before it; loading is true exactly after a
\* start; and when a process*() call settles, loading is false.
C24_LoadingPaired ==
  [][/\ note' # note
          => \/ note'.kind = "start" /\ note.kind \in {"none", "stop"}
             \/ note'.kind = "stop" /\ note.kind = "start" /\ note'.id = note.id
     /\ loading' # loading => note' # note
     /\ loading' = (note'.kind = "start")
     /\ \A k \in RenCalls :
          (ren[k].pc # "done" /\ ren'[k].pc = "done")
          => (~loading' /\ note'.kind = "stop")]_vars

\* C24 witness: a call has run its pipeline to the end and resolved with a
\* model; the stop notification carries the id of its start.
C24_StoppedAfterModel ==
  \E k \in RenCalls :
    /\ ren[k].pc = "done" /\ ren[k].out = "resolved" /\ ren[k].val = "model"
    /\ ~loading
    /\ note = [kind |-> "stop", id |-> loadingId]

\* C25: when resolve() has returned candidates and the chooser returns no
\* file, the call resolves with undefined, the session is cancelled (its
\* temp resource deleted, working directory and entry file unset) and no
\* request is sent to the worker; when the chooser fails, the session is
\* cancelled in the same way and the call rejects with the chooser's error.
C25_NoChoiceCancels ==
  [][\A k \in RenCalls, fails \in BOOLEAN :
       (/\ ren[k].pc = "choose"
        /\ Choose(k, NoFile, fails))
       => /\ ren'[k].pc = "done"
          /\ IF fails
             THEN ren'[k].out = "rejected" /\ ren'[k].err = ErrChooser
             ELSE ren'[k].out = "resolved" /\ ren'[k].val = "undefined"
          /\ tmpObj' = 0
          /\ Deleted(disk', tmpObj)
          /\ workingDir' = NoDir
          /\ mainFile' = NoFile
          /\ ~loading'
          /\ UNCHANGED supervisor]_vars

\* C25 witness: the chooser returned no file for the candidates of an
\* archive; the call resolved with undefined and the temp directory is gone.
C25_Dismissed ==
  \E k \in RenCalls :
    /\ ren[k].pc = "done" /\ ren[k].out = "resolved" /\ ren[k].val = "undefined"
    /\ last.op = "cancel"
    /\ last.tmp # 0
    /\ disk[last.tmp] = "none"

C27_ChecksumGuardsPipeline ==
  [][\A k \in RenCalls, b \in Buffers, stamp \in Stamps :
       (/\ ren[k].op = "link"
        /\ ren[k].pc = "download"
        /\ Downloaded(k, TRUE, b, stamp))
       => IF ren[k].md5 # NoMd5 /\ ren[k].md5 # <<Digest(b)>>
          THEN /\ ren'[k].pc = "done"
               /\ ren'[k].out = "rejected"
               /\ ren'[k].err = ErrChecksum
               /\ ~loading'
               /\ UNCHANGED <<session, supervisor>>
          ELSE /\ ren'[k].pc = "prepare"
               /\ last'.op = "setSource"
               /\ source' = "buffer"
               /\ loading']_vars

\* C27 witness: a call with a wrong md5 has been rejected with the checksum
\* error.
C27_ChecksumRejected ==
  \E k \in RenCalls :
    /\ ren[k].op = "link" /\ ren[k].pc = "done"
    /\ ren[k].out = "rejected" /\ ren[k].err = ErrChecksum
    /\ ~loading

\* C28: a handler called with an event that is already defaultPrevented
\* does nothing.  Otherwise it calls preventDefault() and sets detail.result
\* to a promise: of the method it calls, or a rejected one ('File not set.'
\* when detail.file is missing; for api-resolve-model, when model is
\* missing, model is not a string or type is missing, and then no resolver
\* process is forked).
C28_HandlersSetResult ==
  [][/\ \A k \in RenCalls, mf \in {NoFile, TopFile(1)}, md5 \in Md5Args,
           zip \in BOOLEAN, stamp \in Stamps :
          /\ (dom'.type = "api-process-link" /\ AssetHandler(k, TRUE, mf, md5, zip, stamp))
               => (dom'.result = "unset" /\ ren' = ren /\ loading' = loading)
          /\ (dom'.type = "api-process-link" /\ AssetHandler(k, FALSE, mf, md5, zip, stamp))
               => /\ dom'.prevented
                  /\ dom'.result = "processApiLink"
                  /\ ren'[k].op = "link" /\ ren'[k].pc = "download"
     /\ \A k \in RenCalls, file \in FileArgs, stamp \in Stamps :
          /\ (dom'.type = "api-process-file" /\ FileHandler(k, TRUE, file, stamp))
               => (dom'.result = "unset" /\ ren' = ren /\ loading' = loading)
          /\ (dom'.type = "api-process-file" /\ FileHandler(k, FALSE, file, stamp))
               => /\ dom'.prevented
                  /\ IF file = "missing"
                     THEN dom'.result = "rejected" /\ dom'.err = ErrNoFile /\ ren' = ren
                     ELSE dom'.result = "processApiFile"
                            /\ ren'[k].op = "file" /\ ren'[k].pc = "download"
     /\ \A model \in ModelArgs, type \in TypeArgs :
          /\ (dom'.type = "api-resolve-model" /\ ResolveHandler(TRUE, model, type))
               => (dom'.result = "unset" /\ ~dom'.forked)
          /\ (dom'.type = "api-resolve-model" /\ ResolveHandler(FALSE, model, type))
               => /\ dom'.prevented
                  /\ IF model \in {"missing", "empty", "object"} \/ type = "missing"
                     THEN dom'.result = "rejected" /\ ~dom'.forked
                     ELSE dom'.result = "resolveAPiConsole"]_vars

\* C28 witness: an api-resolve-model event whose model is an object was
\* answered by a rejected promise, without a resolver process.
C28_ObjectModelRejected ==
  /\ dom.type = "api-resolve-model"
  /\ dom.prevented
  /\ dom.result = "rejected"
  /\ dom.err = ErrModelType
  /\ ~dom.forked

\* C29: whenever the session holds a temp resource, tmpIsFile tells what it
\* is: true for a temp file, false for a temp directory.
C29_TagMatchesResource ==
  tmpObj # 0 => (tmpIsFile <=> disk[tmpObj] = "file")

\* C30: at any time at most one parser process of the session is alive, and
\* a process is forked only when no process is alive before the step and no
\* other process is left after it: the previous one has exited or was
\* killed, and the session's handle is the new process.
C30_OneLiveWorker ==
  [][/\ Cardinality({p \in ProcIds : procs'[p].status = "alive"}) <= 1
     /\ \A p \in ProcIds :
          (procs[p].status # "alive" /\ procs'[p].status = "alive") =>
            /\ parserProc' = p
            /\ \A q \in ProcIds : procs[q].status # "alive"
            /\ \A q \in ProcIds \ {p} : procs'[q].status = "none"]_vars

\* C30 witness: the session holds a live worker that has a request.
C30_WorkerAlive ==
  /\ parserProc # 0
  /\ procs[parserProc].status = "alive"
  /\ procs[parserProc].jobs # {}
  /\ Cardinality({p \in ProcIds : procs[p].status # "none"}) = 1

\* C31: when the 'exit' event of the worker the session holds arrives, the
\* handle is unset and no timer is left pending; a parse() that finds no
\* worker forks one and sends it the request; and a parse() that finds a
\* worker whose channel is closed kills it, forks another and sends it the
\* request.
C31_DeadWorkerReplaced ==
  [][/\ \A p \in ProcIds :
          (/\ "create" \in procs[p].onExit
           /\ procs[p].status \in {"crashed", "killed"}
           /\ ProcExit(p)) =>
             (parserProc' = 0 /\ timers' = {})
     /\ (/\ last'.op = "parse"
         /\ last'.err \notin {ErrPrepare, ErrResolve, ErrType}
         /\ parserProc = 0 \/ ~procs[parserProc].connected
         /\ Parse(NoFile)) =>
            /\ parserProc' # 0
            /\ procs'[parserProc'].status = "alive"
            /\ procs'[parserProc'].jobs # {}
            /\ last'.outcome = "pending"]_vars

\* C32: a pending _runParser() call is settled only by the answer to its own
\* request, by a worker error or by the parse timeout; never by the answer
\* to a request that an earlier call had sent to the same worker.
C32_NoStaleSettlement ==
  [][\A c \in CallIds :
       (calls[c].status = "pending" /\ calls'[c].status # "pending") =>
          /\ last'.op = "parse"
          /\ last'.outcome \in {"ok", "rejected"}
          /\ last'.err \in {NoErr, ErrWorker, ErrTimeout}
          /\ ~last'.stale]_vars

\* C33: every pending timer is the current one.  A pending parse-timeout
\* timer is the one the session refers to and a request is in flight; a
\* pending idle timer is the one the session refers to, a worker is held and
\* no request is in flight.
C33_TimersCurrent ==
  \A t \in timers :
    /\ t.kind = "parse" =>
         /\ t.id = parserProcessTimeout
         /\ \E c \in CallIds : calls[c].status = "pending"
    /\ t.kind = "idle" =>
         /\ t.id = parserMonitorTimeout
         /\ parserProc # 0
         /\ \A c \in CallIds : calls[c].status # "pending"

\* C34: a prepare() that fails leaves the session idle: it holds no temp
\* resource, and working directory and entry file are unset; the resolve()
\* or parse() that follows it is rejected with 'prepare() function not
\* called'.
C34_FailedPrepareIsIdle ==
  [][/\ (last'.op = "prepare" /\ last'.outcome = "rejected" /\ last' # last) =>
          /\ tmpObj' = 0
          /\ workingDir' = NoDir
          /\ mainFile' = NoFile
     /\ (/\ last.op = "prepare" /\ last.outcome = "rejected"
         /\ last'.op \in {"resolve", "parse"}) =>
          /\ last'.outcome = "rejected"
          /\ last'.err = ErrPrepare]_vars

\* C35: what processBuffer() does with an archive does not depend on the
\* calls completed before it.  resolve() searches the unpacked directory and
\* gives what the search gives, and when the call ends the temp directory
\* the session held has been removed and is no longer held.
C35_CallsIndependent ==
  [][\A k \in RenCalls :
       /\ (/\ isZip /\ ren[k].pc = "resolve" /\ ren[k].optMain = NoFile
           /\ tmpObj # 0 /\ workingDir = TmpDir(tmpObj) /\ mainFile = NoFile
           /\ disk[tmpObj] = "dir"
           /\ RenResolve(k, TRUE)) =>
             LET r == SearchOutcome(FindApiFile(content))
             IN /\ last'.outcome = r.out.outcome
                /\ last'.err = r.out.err
                /\ last'.list = r.out.list
                /\ r.pin # NoFile => mainFile' = r.pin
       /\ (/\ isZip /\ tmpObj # 0 /\ disk[tmpObj] = "dir"
           /\ ren[k].pc # "done" /\ ren'[k].pc = "done") =>
             /\ tmpObj' = 0
             /\ disk'[tmpObj] = "none"]_vars

\* C36: no callback of the supervisor ends with an uncaught exception: the
\* listeners of the worker's 'message' and 'error' events and the callbacks
\* of the parse-timeout and idle timers run to their end.  (The 'exit'
\* listener only clears timers and unsets the handle.)
C36_CallbacksComplete ==
  last.via \in {"message", "validation", "error", "timeout", "idle"}
     => ~last.threw

\* C37: when a cleanup() that had to kill the worker completes, no parse()
\* call is left pending: a call that was in flight has been settled; and
\* the temp resource the session held is deleted and no longer held.
C37_CleanupSettlesParse ==
  [][(/\ last.op = "cleanup" /\ last.outcome = "pending"
      /\ last'.op = "cleanup" /\ last'.outcome = "ok") =>
        /\ \A c \in CallIds : calls'[c].status # "pending"
        /\ tmpObj' = 0
        /\ tmpObj # 0 => disk'[tmpObj] = "none"]_vars

\* C38: with calls that overlap, every temp resource that exists is the one
\* the session holds, so that it can still be deleted, and no call ends
\* with the error of a parse() or resolve() made on a session that was not
\* prepared or not resolved: each call is settled from its own buffer.
C38_OverlapKeepsCallsApart ==
  /\ \A i \in DOMAIN disk : disk[i] # "none" => tmpObj = i
  /\ \A k \in Overlap :
       ren[k].pc = "done" => ren[k].err \notin {ErrPrepare, ErrResolve}

\* C39: every resolveAPiConsole() call forks a process of its own and, on
\* the first reply or 'error' event, kills that process and detaches its
\* listeners before it settles: it resolves with the api payload that process
\* computed, or rejects with the reported error or the message of the event,
\* and the process of a settled call is never running.
C39_ResolverPerCall ==
  [][\A c \in ResIds :
       /\ (resolver.calls[c].out # "pending" /\ resolver'.calls[c].out = "pending")
            => LET p == resolver'.calls[c].proc
               IN /\ p \in ResIds
                  /\ resolver.procs[p].status = "none"
                  /\ resolver'.procs[p].status = "alive"
                  /\ resolver'.procs[p].listening
                  /\ \A o \in ResIds \ {c} : resolver'.calls[o].proc # p
       /\ (resolver.calls[c].out = "pending"
             /\ resolver'.calls[c].out \in {"resolved", "rejected"})
            => LET p == resolver.calls[c].proc
                   v == resolver'.calls[c].val
               IN /\ resolver.procs[p].listening
                  /\ resolver'.procs[p].status # "alive"
                  /\ ~resolver'.procs[p].listening
                  /\ ~resolver'.procs[p].connected
                  /\ v.from = p
                  /\ resolver'.calls[c].out = "resolved" => v.kind = "api"
                  /\ resolver'.calls[c].out = "rejected"
                       => (v.kind = "error"
                             /\ v.msg \in {ErrResolver, ErrChannel, ErrUnknown})
       /\ resolver'.calls[c].out \in {"resolved", "rejected"}
            => resolver'.procs[resolver'.calls[c].proc].status # "alive"
    ]_vars

\* C39 witness: one call resolved with the payload and another rejected
\* with the reported error, each by a process of its own that was killed.
C39_BothSettled ==
  /\ resolver.calls[1].out = "resolved"
  /\ resolver.calls[1].val.kind = "api"
  /\ resolver.calls[2].out = "rejected"
  /\ resolver.calls[2].val.msg = ErrResolver
  /\ resolver.calls[1].proc # resolver.calls[2].proc
  /\ resolver.procs[resolver.calls[2].proc].status = "killed"

====
